---- MODULE Spec2Model ----
(***************************************************************************)
(* Model of the Blazing Pokemon API: the two logging middlewares           *)
(* (blazing/logging/middleware.py), the logging configuration and its      *)
(* formatters (blazing/logging/logging_config.py), the application wiring  *)
(* (blazing/main.py) and the pokemon routes (blazing/routes/pokemon.py).   *)
(*                                                                         *)
(* Three specifications share the variables:                               *)
(*   Spec     the middleware stack of main.py around an arbitrary          *)
(*            call_next (any downstream: it may bump the query counter,    *)
(*            return any status, or raise);                                *)
(*   SpecApp  the same stack around the routes of this repository;         *)
(*   SpecLog  setup_logging, the root logger's handlers and the formatters.*)
(*                                                                         *)
(* `log` holds the logging calls made while a request is processed (the    *)
(* LogRecords created), whatever the configured level lets through; the    *)
(* level filtering of logger and handlers is part of SpecLog.              *)
(* Time is in whole milliseconds.                                          *)
(***************************************************************************)
EXTENDS Integers, Sequences, FiniteSets, TLC

VARIABLES
    pc,            \* per request slot: where the request is in the stack
    req,           \* per slot: the request (route, method, path, arguments)
    state,         \* per slot: request.state, a map attribute -> value
    frame,         \* per slot: locals of RequestLoggingMiddleware.dispatch
    result,        \* per slot: what the layer below handed up (response / exception)
    sent,          \* per slot: the response the client receives
    log,           \* per slot: the logging calls made while processing the request
    ops,           \* per slot: database operations the handler performed
    store,         \* the pokemon table, rows in rowid order
    issued,        \* ids returned by a successful POST and not successfully deleted since
    posted,        \* rows answered by a successful POST, oldest first, less those deleted since
    served,        \* number of requests that have arrived
    uuid_counter,  \* source of fresh uuid4 values
    root_level,    \* root logger level (numeric)
    handlers,      \* root logger handlers, in registration order
    last_call,     \* parameters of the last setup_logging call
    lib_levels,    \* levels of the third-party loggers setup_logging quietens
    sinks,         \* what each sink has been written: console, file, error_file
    logged,        \* number of logging calls made on the configured logger
    record,        \* the LogRecord object most recently handed to formatters
    rendered,      \* outputs of the formatters applied to `record`, in order
    now            \* wall clock

mwvars  == <<pc, req, state, frame, result, sent, log, ops, store, issued, posted, served, uuid_counter>>
logvars == <<root_level, handlers, last_call, lib_levels, sinks, logged, record, rendered, now>>
vars    == <<pc, req, state, frame, result, sent, log, ops, store, issued, posted, served, uuid_counter,
             root_level, handlers, last_call, lib_levels, sinks, logged, record, rendered, now>>

----------------------------------------------------------------------------
(* Bounds of the model *)

MaxRequests == 2
MaxAppRequests == 4
MaxQueries == 11
MaxConcRequests == 2
MaxConcQueries == 2
MaxId == 2
MaxLogCalls == 2
MaxRendered == 2
MaxClock == 1

\* Request slots.  Spec and SpecApp serve one request at a time on slot 1;
\* SpecConc has a request in flight on each of the two slots.
Slots == {1, 2}
Serial == {1}
Ids == 1..MaxId

(* Program constants *)

slow_request_threshold == 1
HighQueryCount == 10
ServerErrorFrom == 500
ClientErrorFrom == 400

----------------------------------------------------------------------------
(* Small helpers *)

NoAttrs == [k \in {} |-> 0]

\* the upper-case attributes of the logging module, each with its type
IntAttr(n) == [type |-> "int", value |-> n]
StrAttr(t) == [type |-> "str", value |-> t]

logging_attrs ==
    [DEBUG |-> IntAttr(10), INFO |-> IntAttr(20), WARNING |-> IntAttr(30),
     WARN |-> IntAttr(30), ERROR |-> IntAttr(40), CRITICAL |-> IntAttr(50),
     FATAL |-> IntAttr(50), NOTSET |-> IntAttr(0),
     BASIC_FORMAT |-> StrAttr("%(levelname)s:%(name)s:%(message)s")]

\* the numeric levels
logging ==
    [n \in {"DEBUG", "INFO", "WARNING", "ERROR", "CRITICAL", "NOTSET"} |->
        logging_attrs[n].value]

GetAttr(obj, name, default) ==
    IF name \in DOMAIN obj THEN obj[name] ELSE default

SetAttr(obj, name, value) == (name :> value) @@ obj

NoResult == [kind |-> "none"]

Response(status, body) ==
    [kind |-> "response", status_code |-> status, headers |-> NoAttrs, body |-> body]

Raised(exc) == [kind |-> "exception", exc |-> exc]

LogCall(level, msg, extra, exc_info) ==
    [level |-> level, msg |-> msg, extra |-> extra, exc_info |-> exc_info]

----------------------------------------------------------------------------
(* The middleware stack of main.py.  Starlette's add_middleware puts each   *)
(* new middleware in front of the ones added before, so the middleware      *)
(* added last is the outermost.  MiddlewareStack lists the logging          *)
(* middlewares outermost first.                                             *)

AddedOrder == <<"RequestLoggingMiddleware", "DatabaseQueryLoggingMiddleware">>

MiddlewareStack == [k \in 1..Len(AddedOrder) |-> AddedOrder[Len(AddedOrder) + 1 - k]]

Layer(name) == CHOOSE k \in 1..Len(MiddlewareStack) : MiddlewareStack[k] = name

At(where, k) == [at |-> where, layer |-> k]

Idle == At("idle", 0)
Done == At("done", 0)
InHandler == At("handler", 0)
AtServer == At("server", 0)

\* where control goes when middleware `name` awaits call_next
Below(name) ==
    IF Layer(name) = Len(MiddlewareStack) THEN InHandler ELSE At("in", Layer(name) + 1)

\* where control goes when middleware `name` returns or raises
Above(name) ==
    IF Layer(name) = 1 THEN AtServer ELSE At("out", Layer(name) - 1)

\* where control goes when the handler (or the callable below the stack) finishes
HandlerReturnsTo == At("out", Len(MiddlewareStack))

----------------------------------------------------------------------------
(* RequestLoggingMiddleware.dispatch *)

StartedRecord(request_id, rq) ==
    LogCall("INFO", "Request started",
            [request_id |-> request_id, method |-> rq.method, path |-> rq.path,
             client_ip |-> "testclient", user_agent |-> "unknown"],
            FALSE)

\* mutants of OnException: re-raise without logging; answer 500 instead of re-raising
OnException_Silent(request_id, rq, res, duration_ms) ==
    [records |-> << >>, result |-> res]

OnException_Swallowed(request_id, rq, res, duration_ms) ==
    [records |-> << LogCall("ERROR", "Request failed with exception",
                            [request_id |-> request_id, method |-> rq.method,
                             path |-> rq.path, duration_ms |-> duration_ms],
                            TRUE) >>,
     result  |-> Response(ServerErrorFrom, "Internal Server Error")]

\* except Exception: log and re-raise
OnException(request_id, rq, res, duration_ms) ==
    [records |-> << LogCall("ERROR", "Request failed with exception",
                            [request_id |-> request_id, method |-> rq.method,
                             path |-> rq.path, duration_ms |-> duration_ms],
                            TRUE) >>,
     result  |-> res]

\* mutant of CompletionRecord: a request as long as the threshold counts as slow
CompletionRecord_SlowAtThreshold(log_data, status_code, duration_ms) ==
    IF status_code >= ServerErrorFrom
    THEN LogCall("ERROR", "Request completed with server error", log_data, FALSE)
    ELSE IF status_code >= ClientErrorFrom
    THEN LogCall("WARNING", "Request completed with client error", log_data, FALSE)
    ELSE IF duration_ms >= slow_request_threshold * 1000
    THEN LogCall("WARNING", "Slow request detected", log_data, FALSE)
    ELSE LogCall("INFO", "Request completed", log_data, FALSE)

\* the if / elif chain choosing the terminal record
CompletionRecord(log_data, status_code, duration_ms) ==
    IF status_code >= ServerErrorFrom
    THEN LogCall("ERROR", "Request completed with server error", log_data, FALSE)
    ELSE IF status_code >= ClientErrorFrom
    THEN LogCall("WARNING", "Request completed with client error", log_data, FALSE)
    ELSE IF duration_ms > slow_request_threshold * 1000
    THEN LogCall("WARNING", "Slow request detected", log_data, FALSE)
    ELSE LogCall("INFO", "Request completed", log_data, FALSE)

\* mutant of AddRequestIdHeader: the header is never set
AddRequestIdHeader_Missing(res, request_id) == res

AddRequestIdHeader(res, request_id) ==
    [res EXCEPT !.headers = SetAttr(@, "X-Request-ID", request_id)]

OnReturn(request_id, rq, res, duration_ms) ==
    [records |-> << CompletionRecord(
                       [request_id |-> request_id, method |-> rq.method,
                        path |-> rq.path, status_code |-> res.status_code,
                        duration_ms |-> duration_ms],
                       res.status_code, duration_ms) >>,
     result  |-> AddRequestIdHeader(res, request_id)]

Durations == {0, slow_request_threshold * 1000, slow_request_threshold * 1000 + 1}

ReqDispatchEnter(r) ==
    /\ pc[r] = At("in", Layer("RequestLoggingMiddleware"))
    /\ LET request_id == uuid_counter + 1 IN
         /\ uuid_counter' = request_id
         /\ frame' = [frame EXCEPT ![r] = [request_id |-> request_id]]
         /\ state' = [state EXCEPT ![r] = SetAttr(@, "request_id", request_id)]
         /\ log' = [log EXCEPT ![r] = Append(@, StartedRecord(request_id, req[r]))]
    /\ pc' = [pc EXCEPT ![r] = Below("RequestLoggingMiddleware")]
    /\ UNCHANGED <<req, result, sent, ops, store, issued, posted, served>>
    /\ UNCHANGED logvars

ReqDispatchExit(r) ==
    /\ pc[r] = At("out", Layer("RequestLoggingMiddleware"))
    /\ \E duration_ms \in Durations :
         LET out == IF result[r].kind = "exception"
                    THEN OnException(frame[r].request_id, req[r], result[r], duration_ms)
                    ELSE OnReturn(frame[r].request_id, req[r], result[r], duration_ms)
         IN /\ log' = [log EXCEPT ![r] = @ \o out.records]
            /\ result' = [result EXCEPT ![r] = out.result]
    /\ pc' = [pc EXCEPT ![r] = Above("RequestLoggingMiddleware")]
    /\ UNCHANGED <<req, state, frame, sent, ops, store, issued, posted, served, uuid_counter>>
    /\ UNCHANGED logvars

----------------------------------------------------------------------------
(* DatabaseQueryLoggingMiddleware.dispatch *)

\* mutant of QueryCountRecords: ten queries already count as high
QueryCountRecords_HighAtTen(st, rq) ==
    LET query_count == GetAttr(st, "db_query_count", 0)
        request_id  == GetAttr(st, "request_id", "unknown")
    IN IF query_count > 0
       THEN IF query_count >= HighQueryCount
            THEN << LogCall("WARNING", "High database query count detected",
                            [request_id |-> request_id, query_count |-> query_count,
                             path |-> rq.path],
                            FALSE) >>
            ELSE << LogCall("DEBUG", "Database queries executed",
                            [request_id |-> request_id, query_count |-> query_count],
                            FALSE) >>
       ELSE << >>

QueryCountRecords(st, rq) ==
    LET query_count == GetAttr(st, "db_query_count", 0)
        request_id  == GetAttr(st, "request_id", "unknown")
    IN IF query_count > 0
       THEN IF query_count > HighQueryCount
            THEN << LogCall("WARNING", "High database query count detected",
                            [request_id |-> request_id, query_count |-> query_count,
                             path |-> rq.path],
                            FALSE) >>
            ELSE << LogCall("DEBUG", "Database queries executed",
                            [request_id |-> request_id, query_count |-> query_count],
                            FALSE) >>
       ELSE << >>

DbDispatchEnter_SharedCounter(r) ==
    /\ pc[r] = At("in", Layer("DatabaseQueryLoggingMiddleware"))
    /\ state' = [q \in Slots |-> SetAttr(state[q], "db_query_count", 0)]
    /\ pc' = [pc EXCEPT ![r] = Below("DatabaseQueryLoggingMiddleware")]
    /\ UNCHANGED <<req, frame, result, sent, log, ops, store, issued, posted, served, uuid_counter>>
    /\ UNCHANGED logvars

DbDispatchEnter(r) ==
    /\ pc[r] = At("in", Layer("DatabaseQueryLoggingMiddleware"))
    /\ state' = [state EXCEPT ![r] = SetAttr(@, "db_query_count", 0)]
    /\ pc' = [pc EXCEPT ![r] = Below("DatabaseQueryLoggingMiddleware")]
    /\ UNCHANGED <<req, frame, result, sent, log, ops, store, issued, posted, served, uuid_counter>>
    /\ UNCHANGED logvars

\* call_next is awaited outside any try: an exception passes through untouched
DbDispatchExit(r) ==
    /\ pc[r] = At("out", Layer("DatabaseQueryLoggingMiddleware"))
    /\ log' = [log EXCEPT ![r] =
                 IF result[r].kind = "exception" THEN @
                 ELSE @ \o QueryCountRecords(state[r], req[r])]
    /\ pc' = [pc EXCEPT ![r] = Above("DatabaseQueryLoggingMiddleware")]
    /\ UNCHANGED <<req, state, frame, result, sent, ops, store, issued, posted, served, uuid_counter>>
    /\ UNCHANGED logvars

----------------------------------------------------------------------------
(* The server around the stack: a response coming out of the stack is sent  *)
(* as it is; an exception coming out of the stack is answered with a plain  *)
(* 500 response built outside the logging middlewares.                      *)

\* the client's view: an id is issued by a POST answered 200 and withdrawn by a
\* DELETE answered 200
IssuedAfter(rq, response, ids) ==
    IF response.status_code # 200 THEN ids
    ELSE IF rq.route = "add_pokemon" THEN ids \cup {response.body.id}
    ELSE IF rq.route = "delete_pokemon" THEN ids \ {rq.arg}
    ELSE ids

\* the same view with the rows themselves, in the order the POSTs were answered
RECURSIVE Without(_, _)
Without(rows, id) ==
    IF rows = <<>> THEN <<>>
    ELSE IF Head(rows).id = id THEN Without(Tail(rows), id)
    ELSE <<Head(rows)>> \o Without(Tail(rows), id)

PostedAfter(rq, response, rows) ==
    IF response.status_code # 200 THEN rows
    ELSE IF rq.route = "add_pokemon" THEN Append(rows, response.body)
    ELSE IF rq.route = "delete_pokemon" THEN Without(rows, rq.arg)
    ELSE rows

InternalServerError == Response(ServerErrorFrom, "Internal Server Error")

ServerSend(r) ==
    /\ pc[r] = AtServer
    /\ sent' = [sent EXCEPT ![r] =
                  IF result[r].kind = "exception" THEN InternalServerError ELSE result[r]]
    /\ issued' = IssuedAfter(req[r], sent'[r], issued)
    /\ posted' = PostedAfter(req[r], sent'[r], posted)
    /\ pc' = [pc EXCEPT ![r] = Done]
    /\ UNCHANGED <<req, state, frame, result, log, ops, store, served, uuid_counter>>
    /\ UNCHANGED logvars

----------------------------------------------------------------------------
(* A request arrives on a free slot: fresh request.state, nothing logged.   *)

Accept(r, rq, limit) ==
    /\ pc[r] \in {Idle, Done}
    /\ served < limit
    /\ served' = served + 1
    /\ req' = [req EXCEPT ![r] = rq]
    /\ state' = [state EXCEPT ![r] = NoAttrs]
    /\ frame' = [frame EXCEPT ![r] = NoAttrs]
    /\ result' = [result EXCEPT ![r] = NoResult]
    /\ sent' = [sent EXCEPT ![r] = NoResult]
    /\ log' = [log EXCEPT ![r] = << >>]
    /\ ops' = [ops EXCEPT ![r] = 0]
    /\ pc' = [pc EXCEPT ![r] = At("in", 1)]
    /\ UNCHANGED <<store, issued, posted, uuid_counter>>
    /\ UNCHANGED logvars

----------------------------------------------------------------------------
(* An arbitrary call_next below the stack (Spec): it may perform database   *)
(* operations, each bumping request.state.db_query_count, and then returns  *)
(* a response of any status or raises.                                      *)

Statuses == {200, ClientErrorFrom - 1, ClientErrorFrom, ServerErrorFrom - 1, ServerErrorFrom}
Exceptions == {"RuntimeError", "ValueError"}

AnyRequest == [route |-> "call_next", method |-> "GET", path |-> <<"/pokemon/", 42>>, arg |-> 0]

Arrive(r) == Accept(r, AnyRequest, MaxRequests)

CallNextQuery(r) ==
    /\ pc[r] = InHandler
    /\ req[r].route = "call_next"
    /\ ops[r] < MaxQueries
    /\ ops' = [ops EXCEPT ![r] = @ + 1]
    /\ state' = [state EXCEPT ![r] =
                   SetAttr(@, "db_query_count", GetAttr(@, "db_query_count", 0) + 1)]
    /\ UNCHANGED <<pc, req, frame, result, sent, log, store, issued, posted, served, uuid_counter>>
    /\ UNCHANGED logvars

CallNextReturn(r) ==
    /\ pc[r] = InHandler
    /\ req[r].route = "call_next"
    /\ \E s \in Statuses : result' = [result EXCEPT ![r] = Response(s, "body")]
    /\ pc' = [pc EXCEPT ![r] = HandlerReturnsTo]
    /\ UNCHANGED <<req, state, frame, sent, log, ops, store, issued, posted, served, uuid_counter>>
    /\ UNCHANGED logvars

CallNextRaise(r) ==
    /\ pc[r] = InHandler
    /\ req[r].route = "call_next"
    /\ \E e \in Exceptions : result' = [result EXCEPT ![r] = Raised(e)]
    /\ pc' = [pc EXCEPT ![r] = HandlerReturnsTo]
    /\ UNCHANGED <<req, state, frame, sent, log, ops, store, issued, posted, served, uuid_counter>>
    /\ UNCHANGED logvars

----------------------------------------------------------------------------
(* Initial state and the specification of the stack around any call_next *)

InitMw ==
    /\ pc = [r \in Slots |-> Idle]
    /\ req = [r \in Slots |-> AnyRequest]
    /\ state = [r \in Slots |-> NoAttrs]
    /\ frame = [r \in Slots |-> NoAttrs]
    /\ result = [r \in Slots |-> NoResult]
    /\ sent = [r \in Slots |-> NoResult]
    /\ log = [r \in Slots |-> << >>]
    /\ ops = [r \in Slots |-> 0]
    /\ store = << >>
    /\ issued = {}
    /\ posted = <<>>
    /\ served = 0
    /\ uuid_counter = 0

\* logging before setup_logging is called: the root logger at WARNING, no handler
InitLogIdle ==
    /\ root_level = logging.WARNING
    /\ handlers = << >>
    /\ last_call = NoAttrs
    /\ lib_levels = [uvicorn_access |-> logging.NOTSET, sqlalchemy_engine |-> logging.NOTSET]
    /\ sinks = [console |-> << >>, file |-> << >>, error_file |-> << >>]
    /\ logged = 0
    /\ record = NoAttrs
    /\ rendered = << >>
    /\ now = 0

Init == InitMw /\ InitLogIdle

Step(r) ==
    \/ Arrive(r)
    \/ DbDispatchEnter(r)
    \/ ReqDispatchEnter(r)
    \/ CallNextQuery(r)
    \/ CallNextReturn(r)
    \/ CallNextRaise(r)
    \/ ReqDispatchExit(r)
    \/ DbDispatchExit(r)
    \/ ServerSend(r)

Next == \E r \in Serial : Step(r)

Spec == Init /\ [][Next]_vars

\* requests in flight together, interleaved in any order; the downstream makes
\* up to MaxConcQueries counted queries for each
ArriveConc(r) == Accept(r, AnyRequest, MaxConcRequests)

CallNextQueryConc(r) ==
    /\ ops[r] < MaxConcQueries
    /\ CallNextQuery(r)

StepConc(r) ==
    \/ ArriveConc(r)
    \/ DbDispatchEnter(r)
    \/ ReqDispatchEnter(r)
    \/ CallNextQueryConc(r)
    \/ CallNextReturn(r)
    \/ CallNextRaise(r)
    \/ ReqDispatchExit(r)
    \/ DbDispatchExit(r)
    \/ ServerSend(r)

NextConc == \E r \in Slots : StepConc(r)

SpecConc == Init /\ [][NextConc]_vars

----------------------------------------------------------------------------
(* The pokemon table behind the session: rows in rowid order, a new row     *)
(* taking the next rowid after the largest one present.  The session is     *)
(* taken to work: commit, get and exec do not fail.                         *)

MaxOf(S) == CHOOSE x \in S : \A y \in S : y <= x

RowIds(table) == {table[i].id : i \in 1..Len(table)}

NextRowId(table) == IF table = << >> THEN 1 ELSE MaxOf(RowIds(table)) + 1

\* session.add(pokemon); session.commit(); session.refresh(pokemon)
Inserted_AtFront(table, data) ==
    <<[id |-> NextRowId(table), name |-> data.name,
       number |-> data.number, region |-> data.region]>> \o table

Inserted(table, data) ==
    Append(table, [id |-> NextRowId(table), name |-> data.name,
                   number |-> data.number, region |-> data.region])

\* session.get(Pokemon, pokemon_id): the row, or None
SessionGet(table, pokemon_id) ==
    IF pokemon_id \in RowIds(table)
    THEN << table[CHOOSE i \in 1..Len(table) : table[i].id = pokemon_id] >>
    ELSE << >>

\* mutant of Deleted: the row is not removed
Deleted_Kept(table, pokemon_id) == table

\* session.delete(pokemon); session.commit()
Deleted(table, pokemon_id) ==
    SelectSeq(table, LAMBDA row : row.id # pokemon_id)

PokemonData ==
    {[name |-> "Pikachu", number |-> 25, region |-> "Kanto"],
     [name |-> "Chikorita", number |-> 152, region |-> "Johto"]}

----------------------------------------------------------------------------
(* Route handlers (routes/pokemon.py, main.py).  Each returns the records   *)
(* it logs, the number of session calls it makes, the table afterwards and  *)
(* its outcome; an HTTPException leaving a handler is turned into a         *)
(* response of that status by the framework, below the logging middlewares. *)

HttpException(status, detail) == Response(status, [detail |-> detail])

add_pokemon(request_id, pokemon_data, table) ==
    LET after == Inserted(table, pokemon_data)
        pokemon == after[Len(after)]
    IN [records |->
          << LogCall("INFO", "Creating new Pokemon",
                     [request_id |-> request_id, pokemon_name |-> pokemon_data.name,
                      pokemon_number |-> pokemon_data.number,
                      region |-> pokemon_data.region], FALSE),
             LogCall("INFO", "Pokemon created successfully",
                     [request_id |-> request_id, pokemon_id |-> pokemon.id,
                      pokemon_name |-> pokemon.name], FALSE) >>,
        calls |-> 3,
        table |-> after,
        result |-> Response(200, pokemon)]

get_pokemon(request_id, pokemon_id, table) ==
    LET pokemon == SessionGet(table, pokemon_id)
        fetching == LogCall("DEBUG", "Fetching Pokemon with ID",
                            [request_id |-> request_id, pokemon_id |-> pokemon_id], FALSE)
    IN IF pokemon = << >>
       THEN [records |->
               << fetching,
                  LogCall("WARNING", "Pokemon not found",
                          [request_id |-> request_id, pokemon_id |-> pokemon_id], FALSE) >>,
             calls |-> 1,
             table |-> table,
             result |-> HttpException(404, "Pokemon not found")]
       ELSE [records |->
               << fetching,
                  LogCall("DEBUG", "Pokemon found",
                          [request_id |-> request_id, pokemon_id |-> pokemon[1].id,
                           pokemon_name |-> pokemon[1].name], FALSE) >>,
             calls |-> 1,
             table |-> table,
             result |-> Response(200, pokemon[1])]

delete_pokemon(request_id, pokemon_id, table) ==
    LET attempt == LogCall("INFO", "Attempting to delete Pokemon with ID",
                           [request_id |-> request_id, pokemon_id |-> pokemon_id], FALSE)
        got == get_pokemon(request_id, pokemon_id, table)
    IN IF got.result.status_code # 200
       THEN [records |->
               (<<attempt>> \o got.records) \o
               << LogCall("WARNING", "Cannot delete - Pokemon not found",
                          [request_id |-> request_id, pokemon_id |-> pokemon_id], FALSE) >>,
             calls |-> got.calls,
             table |-> table,
             result |-> got.result]
       ELSE [records |->
               (<<attempt>> \o got.records) \o
               << LogCall("INFO", "Pokemon deleted successfully",
                          [request_id |-> request_id, pokemon_id |-> pokemon_id,
                           pokemon_name |-> got.result.body.name], FALSE) >>,
             calls |-> got.calls + 2,
             table |-> Deleted(table, pokemon_id),
             result |-> Response(200, [ok |-> TRUE])]

list_pokemon(request_id, table) ==
    [records |->
       << LogCall("DEBUG", "Fetching all Pokemon", [request_id |-> request_id], FALSE),
          LogCall("INFO", "Retrieved Pokemon",
                  [request_id |-> request_id, count |-> Len(table)], FALSE) >>,
     calls |-> 1,
     table |-> table,
     result |-> Response(200, table)]

health_check(table) ==
    [records |-> << LogCall("DEBUG", "Health check called", NoAttrs, FALSE) >>,
     calls |-> 0,
     table |-> table,
     result |-> Response(200, [status |-> "healthy"])]

root(table) ==
    [records |-> << LogCall("DEBUG", "Root endpoint called", NoAttrs, FALSE) >>,
     calls |-> 0,
     table |-> table,
     result |-> Response(200, [message |-> "Welcome to Blazing Pokemon API"])]

\* request_id = getattr(request.state, "request_id", "unknown")
RequestIdOf(r) == GetAttr(state[r], "request_id", "unknown")

\* the handler of request r runs to its end and hands its outcome up the stack
Handle(r, route, out) ==
    /\ pc[r] = InHandler
    /\ req[r].route = route
    /\ log' = [log EXCEPT ![r] = @ \o out.records]
    /\ ops' = [ops EXCEPT ![r] = @ + out.calls]
    /\ store' = out.table
    /\ result' = [result EXCEPT ![r] = out.result]
    /\ pc' = [pc EXCEPT ![r] = HandlerReturnsTo]
    /\ UNCHANGED <<req, state, frame, sent, issued, posted, served, uuid_counter>>
    /\ UNCHANGED logvars

AddPokemon(r) == Handle(r, "add_pokemon", add_pokemon(RequestIdOf(r), req[r].arg, store))
GetPokemon(r) == Handle(r, "get_pokemon", get_pokemon(RequestIdOf(r), req[r].arg, store))
DeletePokemon(r) ==
    Handle(r, "delete_pokemon", delete_pokemon(RequestIdOf(r), req[r].arg, store))
ListPokemon(r) == Handle(r, "list_pokemon", list_pokemon(RequestIdOf(r), store))
HealthCheck(r) == Handle(r, "health_check", health_check(store))
Root(r) == Handle(r, "root", root(store))

AppRequests ==
    {[route |-> "add_pokemon", method |-> "POST", path |-> <<"/pokemon/">>, arg |-> d]
        : d \in PokemonData}
    \cup {[route |-> "get_pokemon", method |-> "GET", path |-> <<"/pokemon/", i>>, arg |-> i]
        : i \in Ids}
    \cup {[route |-> "delete_pokemon", method |-> "DELETE", path |-> <<"/pokemon/", i>>,
           arg |-> i] : i \in Ids}
    \cup {[route |-> "list_pokemon", method |-> "GET", path |-> <<"/pokemon/">>, arg |-> 0],
          [route |-> "health_check", method |-> "GET", path |-> <<"/health">>, arg |-> 0],
          [route |-> "root", method |-> "GET", path |-> <<"/">>, arg |-> 0]}

ArriveApp(r) == \E rq \in AppRequests : Accept(r, rq, MaxAppRequests)

StepApp(r) ==
    \/ ArriveApp(r)
    \/ DbDispatchEnter(r)
    \/ ReqDispatchEnter(r)
    \/ AddPokemon(r)
    \/ GetPokemon(r)
    \/ DeletePokemon(r)
    \/ ListPokemon(r)
    \/ HealthCheck(r)
    \/ Root(r)
    \/ ReqDispatchExit(r)
    \/ DbDispatchExit(r)
    \/ ServerSend(r)

NextApp == \E r \in Serial : StepApp(r)

SpecApp == Init /\ [][NextApp]_vars

----------------------------------------------------------------------------
(* Log records and the formatters of logging_config.py.  A LogRecord is a   *)
(* map attribute -> value; a text value that a formatter may decorate is a  *)
(* sequence of tokens.                                                      *)

LevelNames == {"DEBUG", "INFO", "WARNING", "ERROR", "CRITICAL"}

NoText == << >>
Traceback == <<"Traceback (most recent call last)">>

\* Logger.makeRecord: the record of one logging call, extra merged into it
LogRecord(levelname, msg, exc_info, extra, created) ==
    extra @@
    [name |-> "blazing", levelname |-> <<levelname>>, levelno |-> logging[levelname],
     msg |-> msg, module |-> "middleware", funcName |-> "dispatch", lineno |-> 61,
     exc_info |-> exc_info, exc_text |-> NoText, created |-> created]

\* logging.Formatter.format: fills message, asctime and (once) exc_text on the
\* record it is given, and renders fmt '%(asctime)s - %(name)s - %(levelname)s -
\* %(message)s' followed by the traceback text
Formatter_format(rec) ==
    LET r1 == SetAttr(SetAttr(rec, "message", rec.msg), "asctime", rec.created)
        r2 == IF r1.exc_info /\ r1.exc_text = NoText
              THEN SetAttr(r1, "exc_text", Traceback) ELSE r1
    IN [out |-> [by |-> "plain", asctime |-> r2.asctime, name |-> r2.name,
                 levelname |-> r2.levelname, message |-> r2.message,
                 exc_text |-> r2.exc_text],
        rec |-> r2]

\* mutant of JSONFormatter_format: an absent optional field is rendered as null
JSONFormatter_format_Nulls(rec, utcnow) ==
    LET log_data == [timestamp |-> utcnow, level |-> rec.levelname, logger |-> rec.name,
                     message |-> rec.msg, module |-> rec.module,
                     function |-> rec.funcName, line |-> rec.lineno]
        exception == IF rec.exc_info THEN [exception |-> Traceback] ELSE NoAttrs
    IN [out |-> [by |-> "json",
                 data |-> [duration_ms |-> GetAttr(rec, "duration_ms", "null"),
                           user_id |-> GetAttr(rec, "user_id", "null"),
                           request_id |-> GetAttr(rec, "request_id", "null")]
                          @@ exception @@ log_data],
        rec |-> rec]

\* JSONFormatter.format: timestamp is datetime.utcnow() at the time of the call
JSONFormatter_format(rec, utcnow) ==
    LET log_data == [timestamp |-> utcnow, level |-> rec.levelname, logger |-> rec.name,
                     message |-> rec.msg, module |-> rec.module,
                     function |-> rec.funcName, line |-> rec.lineno]
        exception == IF rec.exc_info THEN [exception |-> Traceback] ELSE NoAttrs
        request_id == IF "request_id" \in DOMAIN rec
                      THEN [request_id |-> rec.request_id] ELSE NoAttrs
        user_id == IF "user_id" \in DOMAIN rec THEN [user_id |-> rec.user_id] ELSE NoAttrs
        duration_ms == IF "duration_ms" \in DOMAIN rec
                       THEN [duration_ms |-> rec.duration_ms] ELSE NoAttrs
    IN [out |-> [by |-> "json",
                 data |-> duration_ms @@ user_id @@ request_id @@ exception @@ log_data],
        rec |-> rec]

COLORS ==
    [DEBUG |-> "ESC[36m", INFO |-> "ESC[32m", WARNING |-> "ESC[33m",
     ERROR |-> "ESC[31m", CRITICAL |-> "ESC[35m"]
RESET == "ESC[0m"

\* self.COLORS.get(levelname, self.RESET) + levelname + self.RESET
Colored(levelname) ==
    LET color == IF Len(levelname) = 1 /\ levelname[1] \in DOMAIN COLORS
                 THEN COLORS[levelname[1]] ELSE RESET
    IN (<<color>> \o levelname) \o <<RESET>>

\* mutant of ColoredConsoleFormatter_format: the record itself is coloured
ColoredConsoleFormatter_format_InPlace(rec) ==
    LET coloured == [rec EXCEPT !.levelname = Colored(@)]
    IN [out |-> [Formatter_format(coloured).out EXCEPT !.by = "colored"],
        rec |-> Formatter_format(coloured).rec]

\* ColoredConsoleFormatter.format: colours the levelname of a copy of the record
\* and formats the copy; the record it was given is left as it was
ColoredConsoleFormatter_format(rec) ==
    LET record_copy == rec
        coloured == [record_copy EXCEPT !.levelname = Colored(@)]
    IN [out |-> [Formatter_format(coloured).out EXCEPT !.by = "colored"],
        rec |-> rec]

\* handler.format(record): the handler's formatter applied to the record
Format(formatter, rec, utcnow) ==
    IF formatter = "json" THEN JSONFormatter_format(rec, utcnow)
    ELSE IF formatter = "colored" THEN ColoredConsoleFormatter_format(rec)
    ELSE Formatter_format(rec)

----------------------------------------------------------------------------
(* setup_logging and the root logger *)

\* str.upper() on the level names tried
Upper ==
    [DEBUG |-> "DEBUG", debug |-> "DEBUG", INFO |-> "INFO", Warning |-> "WARNING",
     ERROR |-> "ERROR", critical |-> "CRITICAL", verbose |-> "VERBOSE",
     warn |-> "WARN", basic_format |-> "BASIC_FORMAT"]

LevelInputs == DOMAIN Upper

\* getattr(logging, log_level.upper(), logging.INFO)
ResolveLevel(log_level) ==
    IF Upper[log_level] \in DOMAIN logging_attrs
    THEN logging_attrs[Upper[log_level]] ELSE logging_attrs.INFO

\* Logger.setLevel accepts an int (or the name of a level): anything else raises
SetLevelRaises(level) == level.type # "int"

Handler(kind, level, formatter) == [kind |-> kind, level |-> level, formatter |-> formatter]

NewHandlers_ErrorFileAtMinimum(numeric_level, enable_json_logs, enable_file_logs) ==
    LET console_formatter == IF enable_json_logs THEN "json" ELSE "colored"
        file_formatter == IF enable_json_logs THEN "json" ELSE "plain"
    IN << Handler("console", numeric_level, console_formatter) >> \o
       (IF enable_file_logs
        THEN << Handler("file", numeric_level, file_formatter),
                Handler("error_file", numeric_level, file_formatter) >>
        ELSE << >>)

\* the handlers one call attaches, in the order of addHandler
NewHandlers(numeric_level, enable_json_logs, enable_file_logs) ==
    LET console_formatter == IF enable_json_logs THEN "json" ELSE "colored"
        file_formatter == IF enable_json_logs THEN "json" ELSE "plain"
    IN << Handler("console", numeric_level, console_formatter) >> \o
       (IF enable_file_logs
        THEN << Handler("file", numeric_level, file_formatter),
                Handler("error_file", logging.ERROR, file_formatter) >>
        ELSE << >>)

\* root_logger.handlers.clear() followed by the addHandler calls
Reattached(old, new) == new

RECURSIVE CallHandlers(_, _, _, _, _)
\* Logger.callHandlers: each handler at or below the record's level formats the
\* same record object and writes to its sink
CallHandlers(hs, i, rec, out, utcnow) ==
    IF i > Len(hs) THEN [sinks |-> out, rec |-> rec]
    ELSE IF rec.levelno >= hs[i].level
    THEN LET f == Format(hs[i].formatter, rec, utcnow)
         IN CallHandlers(hs, i + 1, f.rec,
                         [out EXCEPT ![hs[i].kind] = Append(@, f.out)], utcnow)
    ELSE CallHandlers(hs, i + 1, rec, out, utcnow)

\* Logger.log on a logger whose effective level is the root's
Logged(level, hs, rec, out, utcnow) ==
    IF rec.levelno >= level
    THEN CallHandlers(hs, 1, rec, out, utcnow)
    ELSE [sinks |-> out, rec |-> rec]

StartupRecord_Warning(log_level, enable_json_logs, enable_file_logs, created) ==
    LogRecord("WARNING", <<"Logging initialized", log_level, enable_json_logs, enable_file_logs>>,
              FALSE, NoAttrs, created)

StartupRecord(log_level, enable_json_logs, enable_file_logs, created) ==
    LogRecord("INFO", <<"Logging initialized", log_level, enable_json_logs, enable_file_logs>>,
              FALSE, NoAttrs, created)

SetupLogging(log_level, enable_json_logs, enable_file_logs) ==
    /\ logged < MaxLogCalls
    /\ last_call' = [log_level |-> log_level, enable_json_logs |-> enable_json_logs,
                     enable_file_logs |-> enable_file_logs]
    /\ LET resolved == ResolveLevel(log_level)
           numeric_level == resolved.value
       IN
         IF SetLevelRaises(resolved)
         THEN \* root_logger.setLevel raises before any handler is touched
              UNCHANGED <<root_level, handlers, lib_levels, sinks, logged, record>>
         ELSE LET hs == Reattached(handlers,
                          NewHandlers(numeric_level, enable_json_logs, enable_file_logs))
                  done == Logged(numeric_level, hs,
                                 StartupRecord(log_level, enable_json_logs,
                                               enable_file_logs, now),
                                 sinks, now)
              IN /\ root_level' = numeric_level
                 /\ handlers' = hs
                 /\ lib_levels' = [uvicorn_access |-> logging.WARNING,
                                   sqlalchemy_engine |-> logging.WARNING]
                 /\ sinks' = done.sinks
                 /\ record' = done.rec
                 /\ logged' = logged + 1
    /\ UNCHANGED <<rendered, now>>
    /\ UNCHANGED mwvars

\* a logging call of the application once logging is set up (main.py sets it
\* up at import, before anything logs)
Emit(levelname) ==
    /\ last_call # NoAttrs
    /\ handlers # << >>
    /\ logged < MaxLogCalls
    /\ LET done == Logged(root_level, handlers,
                          LogRecord(levelname, <<"message">>, levelname = "ERROR",
                                    NoAttrs, now),
                          sinks, now)
       IN /\ sinks' = done.sinks
          /\ record' = done.rec
    /\ logged' = logged + 1
    /\ UNCHANGED <<root_level, handlers, last_call, lib_levels, rendered, now>>
    /\ UNCHANGED mwvars

InitLog ==
    /\ InitMw
    /\ InitLogIdle

NextLog ==
    \/ \E log_level \in LevelInputs, enable_json_logs \in BOOLEAN, enable_file_logs \in BOOLEAN :
          SetupLogging(log_level, enable_json_logs, enable_file_logs)
    \/ \E levelname \in LevelNames : Emit(levelname)

SpecLog == InitLog /\ [][NextLog]_vars

----------------------------------------------------------------------------
(* The formatters on their own: a record carrying any combination of the    *)
(* optional fields is rendered by any sequence of formatters while the      *)
(* clock runs.                                                              *)

OptionalExtras ==
    {rid @@ uid @@ dur :
        rid \in {NoAttrs, [request_id |-> "3f2b"]},
        uid \in {NoAttrs, [user_id |-> "ash"]},
        dur \in {NoAttrs, [duration_ms |-> "12.5"]}}

LogRecords ==
    {LogRecord(levelname, <<"message">>, exc_info, extra, 0) :
        levelname \in LevelNames, exc_info \in BOOLEAN, extra \in OptionalExtras}

Render(formatter) ==
    /\ Len(rendered) < MaxRendered
    /\ LET f == Format(formatter, record, now)
       IN /\ rendered' = Append(rendered, f.out)
          /\ record' = f.rec
    /\ UNCHANGED <<root_level, handlers, last_call, lib_levels, sinks, logged, now>>
    /\ UNCHANGED mwvars

RenderColored == Render("colored")
RenderJSON == Render("json")
RenderPlain == Render("plain")

Tick ==
    /\ now < MaxClock
    /\ now' = now + 1
    /\ UNCHANGED <<root_level, handlers, last_call, lib_levels, sinks, logged, record, rendered>>
    /\ UNCHANGED mwvars

InitFmt ==
    /\ InitMw
    /\ root_level = logging.WARNING
    /\ handlers = << >>
    /\ last_call = NoAttrs
    /\ lib_levels = [uvicorn_access |-> logging.NOTSET, sqlalchemy_engine |-> logging.NOTSET]
    /\ sinks = [console |-> << >>, file |-> << >>, error_file |-> << >>]
    /\ logged = 0
    /\ record \in LogRecords
    /\ rendered = << >>
    /\ now = 0

NextFmt ==
    \/ RenderColored
    \/ RenderJSON
    \/ RenderPlain
    \/ Tick

SpecFmt == InitFmt /\ [][NextFmt]_vars

----------------------------------------------------------------------------
(* Vocabulary of the claims about the middlewares *)

TerminalMessages ==
    {"Request completed", "Slow request detected", "Request completed with client error",
     "Request completed with server error", "Request failed with exception"}

Indices(seq, msgs) == {i \in 1..Len(seq) : seq[i].msg \in msgs}

StartedAt(r) == Indices(log[r], {"Request started"})
TerminalAt(r) == Indices(log[r], TerminalMessages)
QueryRecordsAt(r) ==
    Indices(log[r], {"High database query count detected", "Database queries executed"})

TheOne(S) == CHOOSE x \in S : TRUE

\* RequestLoggingMiddleware.dispatch has been entered / has returned or raised
EnteredReq(r) ==
    \/ pc[r].at \in {"handler", "out", "server", "done"}
    \/ pc[r].at = "in" /\ pc[r].layer > Layer("RequestLoggingMiddleware")

LeftReq(r) ==
    \/ pc[r].at \in {"server", "done"}
    \/ pc[r].at = "out" /\ pc[r].layer < Layer("RequestLoggingMiddleware")

LeftDb(r) ==
    \/ pc[r].at \in {"server", "done"}
    \/ pc[r].at = "out" /\ pc[r].layer < Layer("DatabaseQueryLoggingMiddleware")

\* C1: for every request, whether the downstream returned or raised, exactly one
\* "Request started" record and exactly one terminal record are logged, the started
\* record before the terminal one, both with the same request_id; before dispatch
\* is left no terminal record exists, and none is ever logged twice.
C1_OneStartedOneTerminal ==
    \A r \in Slots :
        /\ Cardinality(StartedAt(r)) = (IF EnteredReq(r) THEN 1 ELSE 0)
        /\ Cardinality(TerminalAt(r)) = (IF LeftReq(r) THEN 1 ELSE 0)
        /\ LeftReq(r) =>
             /\ TheOne(StartedAt(r)) < TheOne(TerminalAt(r))
             /\ log[r][TheOne(StartedAt(r))].extra.request_id
                  = log[r][TheOne(TerminalAt(r))].extra.request_id

\* the last of the requests has been answered after its downstream raised
C1_Witness ==
    /\ pc[1] = Done
    /\ result[1].kind = "exception"
    /\ Cardinality(TerminalAt(1)) = 1
    /\ served = MaxRequests

\* C2 as stated: every response sent for a request, whatever the outcome of the
\* downstream processing, carries X-Request-ID equal to the request's identifier.
C2_EveryResponseCarriesRequestId ==
    \A r \in Slots :
        pc[r] = Done =>
            /\ "X-Request-ID" \in DOMAIN sent[r].headers
            /\ sent[r].headers["X-Request-ID"] = frame[r].request_id

\* C2 amended: when the downstream returns a response, the response sent carries
\* X-Request-ID equal to the request_id of the request's started and terminal
\* records; when the downstream raises, dispatch returns no response and the 500
\* response sent for the request carries no X-Request-ID.
C2_HeaderOnReturnedResponses ==
    \A r \in Slots :
        pc[r] = Done =>
            IF result[r].kind = "response"
            THEN /\ "X-Request-ID" \in DOMAIN sent[r].headers
                 /\ sent[r].headers["X-Request-ID"] = log[r][TheOne(StartedAt(r))].extra.request_id
                 /\ sent[r].headers["X-Request-ID"] = log[r][TheOne(TerminalAt(r))].extra.request_id
                 /\ sent[r].headers["X-Request-ID"] = state[r]["request_id"]
            ELSE "X-Request-ID" \notin DOMAIN sent[r].headers

C2_Witness ==
    /\ pc[1] = Done
    /\ result[1].kind = "response"
    /\ result[1].status_code = ClientErrorFrom
    /\ "X-Request-ID" \in DOMAIN sent[1].headers

\* C3: when the downstream returns status s after d ms, exactly one terminal record
\* is logged, ERROR if s >= 500, else WARNING (client error) if s >= 400, else
\* WARNING (slow) if d exceeds the threshold, else INFO; d equal to the threshold
\* is not slow.
C3_SeverityByPriority ==
    \A r \in Slots :
        (LeftReq(r) /\ result[r].kind = "response") =>
            /\ Cardinality(TerminalAt(r)) = 1
            /\ LET t == log[r][TheOne(TerminalAt(r))]
                   s == result[r].status_code
                   d == t.extra.duration_ms
                   slow == d > slow_request_threshold * 1000
               IN /\ t.extra.status_code = s
                  /\ s >= 500 =>
                       t.level = "ERROR" /\ t.msg = "Request completed with server error"
                  /\ (s >= 400 /\ s < 500) =>
                       t.level = "WARNING" /\ t.msg = "Request completed with client error"
                  /\ (s < 400 /\ slow) =>
                       t.level = "WARNING" /\ t.msg = "Slow request detected"
                  /\ (s < 400 /\ ~slow) =>
                       t.level = "INFO" /\ t.msg = "Request completed"

\* a request answered 2xx exactly as long as the threshold: logged at INFO
C3_Witness ==
    /\ LeftReq(1)
    /\ result[1].kind = "response"
    /\ result[1].status_code = 200
    /\ log[1][TheOne(TerminalAt(1))].extra.duration_ms = slow_request_threshold * 1000
    /\ log[1][TheOne(TerminalAt(1))].level = "INFO"

\* C4: when the downstream raises, dispatch appends exactly one ERROR record with
\* the request_id, method, path and elapsed duration, and lets that same exception
\* go up: no response in its place, no other exception.
C4_ExceptionLoggedAndReraised ==
    [][\A r \in Slots :
         (/\ pc[r] = At("out", Layer("RequestLoggingMiddleware"))
          /\ pc'[r] # pc[r]
          /\ result[r].kind = "exception")
         => /\ result'[r] = result[r]
            /\ Len(log'[r]) = Len(log[r]) + 1
            /\ SubSeq(log'[r], 1, Len(log[r])) = log[r]
            /\ LET e == log'[r][Len(log'[r])]
               IN /\ e.level = "ERROR"
                  /\ e.msg = "Request failed with exception"
                  /\ e.exc_info
                  /\ e.extra.request_id = state[r]["request_id"]
                  /\ e.extra.method = req[r].method
                  /\ e.extra.path = req[r].path
                  /\ e.extra.duration_ms \in Durations]_vars

C4_Witness ==
    /\ LeftReq(1)
    /\ result[1] = Raised("ValueError")
    /\ log[1][Len(log[1])].level = "ERROR"
    /\ log[1][Len(log[1])].msg = "Request failed with exception"

\* C6: when the downstream returns with the query counter at n, the query-count
\* middleware logs nothing if n = 0, exactly one DEBUG record with the count if
\* 1 <= n <= 10, exactly one WARNING record with the count if n > 10.
C6_QueryCountRecord ==
    \A r \in Slots :
        (LeftDb(r) /\ result[r].kind = "response") =>
            LET n == state[r]["db_query_count"]
                q == QueryRecordsAt(r)
            IN /\ n = 0 => q = {}
               /\ n > 0 =>
                    /\ Cardinality(q) = 1
                    /\ log[r][TheOne(q)].extra.query_count = n
                    /\ log[r][TheOne(q)].level = (IF n > 10 THEN "WARNING" ELSE "DEBUG")

\* ten queries: still DEBUG
C6_Witness ==
    /\ LeftDb(1)
    /\ result[1].kind = "response"
    /\ state[1]["db_query_count"] = HighQueryCount
    /\ ops[1] = HighQueryCount
    /\ Cardinality(QueryRecordsAt(1)) = 1
    /\ log[1][TheOne(QueryRecordsAt(1))].level = "DEBUG"

----------------------------------------------------------------------------
(* Claims about the assembled application *)

\* C5: every request has one correlation identifier, generated before any handler
\* logic runs, and every record logged while the request is processed (by the
\* middlewares and by the route handler, /health and / included) carries it as
\* its request_id.
C5_EveryRecordCarriesRequestId ==
    \A r \in Slots :
        /\ pc[r].at \in {"handler", "out", "server", "done"} =>
             "request_id" \in DOMAIN state[r]
        /\ \A i \in 1..Len(log[r]) :
             /\ "request_id" \in DOMAIN log[r][i].extra
             /\ log[r][i].extra.request_id = state[r]["request_id"]

\* C10: GET and DELETE on an id are answered 200 exactly when the id was returned
\* by an earlier POST answered 200 and not deleted by a DELETE answered 200 since;
\* a DELETE answered 200 removes that row and no other; on any other id both are
\* answered 404 "Pokemon not found" and the table is left as it was.
C10_FoundIffIssued ==
    [][\A r \in Slots :
         (/\ pc[r] = InHandler
          /\ pc'[r] # pc[r]
          /\ req[r].route \in {"get_pokemon", "delete_pokemon"})
         => LET id == req[r].arg
                res == result'[r]
            IN /\ res.kind = "response"
               /\ res.status_code = 200 <=> id \in issued
               /\ (res.status_code = 200 /\ req[r].route = "get_pokemon") =>
                    /\ res.body.id = id
                    /\ store' = store
               /\ (res.status_code = 200 /\ req[r].route = "delete_pokemon") =>
                    /\ Len(store') = Len(store) - 1
                    /\ store' = SelectSeq(store, LAMBDA row : row.id # id)
               /\ res.status_code # 200 =>
                    /\ res.status_code = 404
                    /\ res.body.detail = "Pokemon not found"
                    /\ store' = store]_vars

\* a DELETE answered 200 took its row out and left another one in place
C10_Witness ==
    /\ pc[1] = Done
    /\ req[1].route = "delete_pokemon"
    /\ sent[1].status_code = 200
    /\ req[1].arg \notin RowIds(store)
    /\ req[1].arg \notin issued
    /\ store # << >>

----------------------------------------------------------------------------
(* Claims about the logging configuration and the formatters *)

ExpectedKinds(enable_file_logs) ==
    IF enable_file_logs THEN <<"console", "file", "error_file">> ELSE <<"console">>

StandardLevel(log_level) == Upper[log_level] \in LevelNames

\* the handlers are those the parameters `call` ask for
SinksImpliedBy(call) ==
    /\ Len(handlers) = Len(ExpectedKinds(call.enable_file_logs))
    /\ \A i \in 1..Len(handlers) :
         /\ handlers[i].kind = ExpectedKinds(call.enable_file_logs)[i]
         /\ handlers[i].formatter =
              (IF call.enable_json_logs THEN "json"
               ELSE IF handlers[i].kind = "console" THEN "colored" ELSE "plain")
         /\ handlers[i].kind = "error_file" => handlers[i].level = 40
         /\ (handlers[i].kind # "error_file" /\ StandardLevel(call.log_level)) =>
              handlers[i].level = logging[Upper[call.log_level]]

\* C7: after any sequence of setup_logging calls the root logger's handlers are
\* exactly those implied by the last call's parameters: one console sink, plus a
\* general and an error file sink iff file output was enabled in that call, with
\* that call's level and formatter kind; nothing of an earlier call remains.
C7_SinksOfLastCall ==
    last_call # NoAttrs => SinksImpliedBy(last_call)

\* what holds of setup_logging: the same, for a last call that returned
SinksOfLastReturnedCall ==
    (last_call # NoAttrs /\ ~SetLevelRaises(ResolveLevel(last_call.log_level)))
        => SinksImpliedBy(last_call)

JsonRequiredKeys == {"timestamp", "level", "logger", "message", "module", "function", "line"}
JsonContextKeys == {"request_id", "user_id", "duration_ms"}

\* C8: the JSON renderer's output always has the keys timestamp, level, logger,
\* message, module, function and line; exception, request_id, user_id and
\* duration_ms each appear iff the record carries that information, with the
\* record's value and never as a null placeholder; no other key appears.
C8_JsonKeys ==
    \A i \in 1..Len(rendered) :
        rendered[i].by = "json" =>
            LET data == rendered[i].data
            IN /\ JsonRequiredKeys \subseteq DOMAIN data
               /\ DOMAIN data \subseteq JsonRequiredKeys \cup JsonContextKeys \cup {"exception"}
               /\ "exception" \in DOMAIN data <=> record.exc_info
               /\ \A k \in JsonContextKeys :
                    /\ k \in DOMAIN data <=> k \in DOMAIN record
                    /\ k \in DOMAIN data => (data[k] = record[k] /\ data[k] # "null")

\* a record with a request_id and a traceback but no user_id, rendered as JSON
C8_Witness ==
    /\ Len(rendered) >= 1
    /\ rendered[1].by = "json"
    /\ "request_id" \in DOMAIN rendered[1].data
    /\ "exception" \in DOMAIN rendered[1].data
    /\ "user_id" \notin DOMAIN rendered[1].data
    /\ "user_id" \notin DOMAIN record

AnsiCodes == {COLORS[l] : l \in DOMAIN COLORS} \cup {RESET}

LevelTokens(out) == IF out.by = "json" THEN out.data.level ELSE out.levelname

HasAnsi(out) == \E i \in 1..Len(LevelTokens(out)) : LevelTokens(out)[i] \in AnsiCodes

\* C9: ColoredConsoleFormatter.format leaves the record it is given unchanged, at
\* every severity: its levelname stays the plain level name, and whatever the JSON
\* or the plain-text formatter renders from the record afterwards contains no ANSI
\* escape code.
C9_ColorStaysInCopy ==
    /\ [](/\ \E l \in LevelNames : record.levelname = <<l>> /\ record.levelno = logging[l]
          /\ \A i \in 1..Len(rendered) :
               rendered[i].by \in {"json", "plain"} => ~HasAnsi(rendered[i]))
    /\ [][(/\ Len(rendered') = Len(rendered) + 1
           /\ rendered'[Len(rendered')].by = "colored") => record' = record]_vars

\* a CRITICAL record rendered in colour, then as JSON
C9_Witness ==
    /\ Len(rendered) = 2
    /\ rendered[1].by = "colored"
    /\ HasAnsi(rendered[1])
    /\ rendered[2].by = "json"
    /\ record.levelno = logging.CRITICAL

----------------------------------------------------------------------------
(* Listing the table.                                                       *)

\* C11: GET /pokemon/ answers 200 with exactly the rows created and not since
\* deleted, oldest first, and with the empty list when there are none; it
\* leaves the table as it was.
C11_ListIsStoredInInsertionOrder ==
    [][\A r \in Slots :
         (/\ pc[r] = InHandler
          /\ pc'[r] # pc[r]
          /\ req[r].route = "list_pokemon")
         => /\ result'[r].kind = "response"
            /\ result'[r].status_code = 200
            /\ result'[r].body = posted
            /\ (issued = {}) => result'[r].body = <<>>
            /\ store' = store]_vars

\* a listing answered after two creations and the deletion of the older row
C11_Witness ==
    /\ pc[1] = Done
    /\ req[1].route = "list_pokemon"
    /\ sent[1].status_code = 200
    /\ Len(sent[1].body) = 1
    /\ sent[1].body[1].id = 2
    /\ posted = sent[1].body

----------------------------------------------------------------------------
(* Order of the two logging middlewares in the assembled application.       *)

\* C12: the query-count middleware runs inside the correlation middleware:
\* the counter is reset only after RequestLoggingMiddleware has been entered
\* and has logged the started record, and DatabaseQueryLoggingMiddleware has
\* finished, its query-count record logged, before the terminal record.
C12_QueryCountInsideCorrelation ==
    \A r \in Slots :
      /\ "db_query_count" \in DOMAIN state[r] =>
            /\ EnteredReq(r)
            /\ StartedAt(r) # {}
      /\ TerminalAt(r) # {} => LeftDb(r)
      /\ \A i \in TerminalAt(r) : \A j \in QueryRecordsAt(r) : j < i

----------------------------------------------------------------------------
(* The counter against the session calls the handlers make.                 *)

\* C13: every database operation of the handler increments db_query_count,
\* so once the handler has finished the counter that
\* DatabaseQueryLoggingMiddleware reads equals the number of database
\* operations performed for the request.
C13_CounterCountsOperations ==
    \A r \in Slots :
      pc[r].at \in {"out", "server", "done"} =>
        GetAttr(state[r], "db_query_count", 0) = ops[r]

----------------------------------------------------------------------------
(* Requests in flight together.                                             *)

\* the step was taken for the request on slot q
Acted(q) ==
    <<pc[q], req[q], state[q], frame[q], result[q], sent[q], log[q], ops[q]>>' #
    <<pc[q], req[q], state[q], frame[q], result[q], sent[q], log[q], ops[q]>>

NewlyAccepted(r) == pc[r] \in {Idle, Done} /\ pc'[r] = At("in", 1)

\* C14: under any interleaving of the requests in flight, a request's counter
\* is 0 when its handler starts, never decreases while the request is
\* processed, and is not changed by a step taken for another request; the
\* request's correlation identifier, once set, stays, is never written by a
\* step taken for another request, and differs from every other request's.
C14_RequestContextsIsolated ==
    /\ [][\A r \in Slots :
            LET count == GetAttr(state[r], "db_query_count", 0)
                count_after == GetAttr(state'[r], "db_query_count", 0)
            IN /\ (\E q \in Slots \ {r} : Acted(q)) =>
                     /\ state'[r] = state[r]
                     /\ frame'[r] = frame[r]
               /\ (pc[r] # InHandler /\ pc'[r] = InHandler) =>
                     /\ "db_query_count" \in DOMAIN state'[r]
                     /\ count_after = 0
               /\ ~NewlyAccepted(r) =>
                     /\ count_after >= count
                     /\ "request_id" \in DOMAIN state[r] =>
                           /\ "request_id" \in DOMAIN state'[r]
                           /\ state'[r]["request_id"] = state[r]["request_id"]]_vars
    /\ [](\A r, q \in Slots :
            (/\ r # q
             /\ "request_id" \in DOMAIN state[r]
             /\ "request_id" \in DOMAIN state[q])
            => state[r]["request_id"] # state[q]["request_id"])

\* two requests in their handlers at once, each with its own identifier and
\* its own nonzero count
C14_Witness ==
    /\ pc[1] = InHandler
    /\ pc[2] = InHandler
    /\ state[1]["db_query_count"] = 2
    /\ state[2]["db_query_count"] = 1
    /\ state[1]["request_id"] # state[2]["request_id"]

----------------------------------------------------------------------------
(* The error file.                                                          *)

HasHandler(hs, kind) == \E i \in 1..Len(hs) : hs[i].kind = kind

\* a logging call was made in this step (the startup record of setup_logging
\* or a record of the application); record' is its record
LoggingCall == logged' = logged + 1

Gained(kind) ==
    /\ Len(sinks'[kind]) = Len(sinks[kind]) + 1
    /\ SubSeq(sinks'[kind], 1, Len(sinks[kind])) = sinks[kind]

ErrorSeverity(rec) == rec.levelno \in {logging.ERROR, logging.CRITICAL}

\* C15 as stated: with the error file attached, whatever the minimum severity,
\* the record of a logging call is written to the error file if and only if
\* its severity is ERROR or CRITICAL.
C15_ErrorFileIffErrorSeverity ==
    [][(LoggingCall /\ HasHandler(handlers', "error_file")) =>
         /\ ErrorSeverity(record') <=> Gained("error_file")
         /\ ~ErrorSeverity(record') => sinks'["error_file"] = sinks["error_file"]]_vars

\* C15 amended: the error file handler's own level is ERROR whatever the
\* minimum severity, and the record of a logging call is written to the error
\* file if and only if its severity is ERROR or CRITICAL and is not below the
\* minimum severity in force on the root logger.
C15_ErrorFileIffErrorSeverityAndEnabled ==
    /\ [](\A i \in 1..Len(handlers) :
            handlers[i].kind = "error_file" => handlers[i].level = logging.ERROR)
    /\ [][(LoggingCall /\ HasHandler(handlers', "error_file")) =>
            LET written == ErrorSeverity(record') /\ record'.levelno >= root_level'
            IN /\ written <=> Gained("error_file")
               /\ ~written => sinks'["error_file"] = sinks["error_file"]]_vars

\* minimum severity DEBUG: the INFO startup record went to the general file
\* only, the ERROR record that followed went to the error file as well
C15_Witness ==
    /\ root_level = logging.DEBUG
    /\ HasHandler(handlers, "error_file")
    /\ record.levelno = logging.ERROR
    /\ Len(sinks["file"]) = 2
    /\ Len(sinks["error_file"]) = 1

----------------------------------------------------------------------------
(* Resolution of the level name.                                            *)

\* C16: the level name is resolved without regard to case, and for a name
\* that is not one of the five severities the call still completes and
\* configures the root logger and the console and general sinks at INFO.
C16_LevelResolvedOrInfo ==
    last_call # NoAttrs =>
      LET expected == IF StandardLevel(last_call.log_level)
                      THEN logging[Upper[last_call.log_level]]
                      ELSE logging.INFO
      IN /\ root_level = expected
         /\ HasHandler(handlers, "console")
         /\ \A i \in 1..Len(handlers) :
              handlers[i].kind \in {"console", "file"} => handlers[i].level = expected

----------------------------------------------------------------------------
(* Rendering one record more than once.                                     *)

\* C17: both renderers are functions of the record alone: any two renderings
\* of the record by the same renderer, whenever they are made, are identical,
\* and the timestamp of a JSON rendering is the record's own time of creation.
C17_RenderingsOfOneRecordAgree ==
    \A i, j \in 1..Len(rendered) :
      /\ (rendered[i].by = rendered[j].by /\ rendered[i].by \in {"json", "colored"})
            => rendered[i] = rendered[j]
      /\ rendered[i].by = "json" => rendered[i].data.timestamp = record.created

----------------------------------------------------------------------------
(* The startup record.                                                      *)

StartupMessage(call) ==
    <<"Logging initialized", call.log_level, call.enable_json_logs, call.enable_file_logs>>

\* a setup_logging call was made in this step / was made and got as far as
\* its startup logging call
SetupCalled == last_call' # last_call \/ (LoggingCall /\ record'.msg = StartupMessage(last_call'))
SetupReturned == LoggingCall /\ record'.msg = StartupMessage(last_call')

\* the sink has gained one entry, an INFO record announcing the parameters of
\* the call
GainedStartup(kind) ==
    /\ Gained(kind)
    /\ LET out == sinks'[kind][Len(sinks'[kind])]
       IN /\ \E i \in 1..Len(LevelTokens(out)) : LevelTokens(out)[i] = "INFO"
          /\ (IF out.by = "json" THEN out.data.message ELSE out.message)
                = StartupMessage(last_call')

\* C18 as stated: every setup_logging call, whatever the minimum severity,
\* writes exactly one INFO record announcing its parameters to the sinks it
\* has attached, the console among them.
C18_StartupRecordAlways ==
    [][SetupCalled =>
         /\ HasHandler(handlers', "console")
         /\ GainedStartup("console")]_vars

\* C18 amended: a setup_logging call writes the INFO record announcing its
\* parameters once to the console sink, and once to the general file sink if
\* file output is enabled, exactly when it has set a minimum severity of INFO
\* or below; a call that sets a higher minimum, or that raises, writes
\* nothing, and the error file never receives the record.
C18_StartupRecordWhenEnabled ==
    [][/\ SetupReturned =>
            LET enabled == root_level' <= logging.INFO
            IN /\ HasHandler(handlers', "console")
               /\ \A kind \in {"console", "file"} :
                    IF enabled /\ HasHandler(handlers', kind)
                    THEN GainedStartup(kind)
                    ELSE sinks'[kind] = sinks[kind]
               /\ sinks'["error_file"] = sinks["error_file"]
       /\ (SetupCalled /\ ~SetupReturned) => sinks' = sinks]_vars

\* setup_logging('INFO', enable_file_logs=True) has returned: console and
\* general file hold the startup record, the error file is empty
C18_Witness ==
    /\ logged = 1
    /\ root_level = logging.INFO
    /\ HasHandler(handlers, "file")
    /\ Len(sinks["console"]) = 1
    /\ Len(sinks["file"]) = 1
    /\ sinks["error_file"] = << >>
    /\ record.msg = StartupMessage(last_call)

====
